---- MODULE Spec2Model ----
(***************************************************************************)
(* A model of pygaze-0.4/libsound.py: the Sound class.                     *)
(*                                                                         *)
(* The module is Python 2 code (reshape(len(l) / 2, 2) and range(slen)     *)
(* need the integer results of "/" on integers), so "/" between integers   *)
(* is floor division here, as it is there.                                 *)
(*                                                                         *)
(* Numbers.  A frequency is [float, hz]: the Python type of the argument   *)
(* and its (whole) value.  A panning argument is [type, s, num, den]: the  *)
(* Python type, the string when it is one, and the value num/den when it   *)
(* is a number (den a power of two, so the float is exact).  A volume is   *)
(* in hundredths (VolUnit is 1.0).  Samples are signed 16-bit integers.    *)
(***************************************************************************)
EXTENDS Integers, Sequences, FiniteSets, TLC

VARIABLES
    SOUNDSAMPLINGFREQUENCY, \* constants.SOUNDSAMPLINGFREQUENCY
    sound,      \* self.sound: the id of a pygame Sound object, 0 before __init__
    heap,       \* the pygame Sound objects alive: id -> [buf, volume]
    channels,   \* the mixer's channels: channel -> [snd, loops], snd = 0 when free
    args,       \* the arguments __init__ was called with
    unscaled,   \* the values of v at line 104, before the envelope
    requested,  \* the last volume set_volume passed on, -1 when none
    lastOp      \* the last call (or mixer event) and how it ended

vars == <<SOUNDSAMPLINGFREQUENCY, sound, heap, channels, args, unscaled,
          requested, lastOp>>

----------------------------------------------------------------------------
(* Bounds of the model *)

MaxLengthMs == 3
MaxAttackMs == 2
MaxDecayMs == 2
MaxPans == 2
NumChannels == 1
MaxFileFrames == 1

----------------------------------------------------------------------------
(* Python arithmetic *)

Abs(x) == IF x < 0 THEN -x ELSE x

Sign(x) == IF x < 0 THEN -1 ELSE IF x > 0 THEN 1 ELSE 0

\* int(float(a) / b) for b > 0: truncation toward zero
Trunc(a, b) == IF a >= 0 THEN a \div b ELSE -((-a) \div b)

\* a / b between Python 2 integers, b # 0: floor division
PyFloorDiv(a, b) ==
    LET n == a * Sign(b)
        d == Abs(b)
    IN  IF n >= 0 THEN n \div d ELSE -((-n + d - 1) \div d)

\* a % b of Python, b # 0: the result has the sign of b
PyMod(a, b) == a - b * PyFloorDiv(a, b)

\* a value stored into a numpy int16 array: kept to 16 bits
ToInt16(x) == ((x + 32768) % 65536) - 32768

----------------------------------------------------------------------------
(* Oscillators.  The phase of sample i is a fraction j / PhaseRes of a     *)
(* cycle; the tables hold int(amp * f(p)) as Python's floats give it for   *)
(* p = float(j) / PhaseRes * 2 * math.pi.                                  *)

amp == 32767 \div 2

sine == <<0, 8191, 14188, 16383, 14188, 8191, 0, -8191, -14188, -16383, -14188, -8191>>

saw == <<-16383, -10922, -5461, 0, 5460, 10922, -16383, -10921, -5461, 0, 5461, 10921>>

PhaseRes == Len(sine)

square(j) == IF 2 * j < PhaseRes THEN amp * 1 ELSE amp * (-1)

\* int(amp * random.random()): random.random() is in [0, 1)
white_noise == {5, amp - 1}

Oscillators == {"sine", "saw", "square", "whitenoise", "triangle"}

\* line 81-91 and line 104: v for oscillator osc at phase j / PhaseRes
Quantize(osc, j, rnd) ==
    CASE osc = "sine" -> sine[j + 1]
      [] osc = "saw" -> saw[j + 1]
      [] osc = "square" -> square(j)
      [] osc = "whitenoise" -> rnd
      [] OTHER -> sine[j + 1]

----------------------------------------------------------------------------
(* Sound.__init__, the synthesis branch *)

IntHz(hz) == [float |-> FALSE, hz |-> hz]
FloatHz(hz) == [float |-> TRUE, hz |-> hz]

\* cps = float(sps/freq) as a fraction n / d with d > 0 (freq.hz # 0)
Cps(sps, freq) ==
    IF freq.float
    THEN [n |-> sps * Sign(freq.hz), d |-> Abs(freq.hz)]
    ELSE [n |-> PyFloorDiv(sps, freq.hz), d |-> 1]

\* float((i % cps)) / cps, in units of 1 / PhaseRes (cps.n # 0)
Phase(i, cps) == (PyMod(i * cps.d, cps.n) * PhaseRes) \div cps.n

\* the attack scaled by i + 1 instead of i
EnvelopeOffByOne(v, i, attack, decay, slen) ==
    LET v1 == IF i < attack THEN Trunc(v * (i + 1), attack) ELSE v
    IN  IF i > slen - decay THEN Trunc(v1 * (slen - i), decay) ELSE v1

\* the decay applied before the decay region instead of in it
EnvelopeFlipped(v, i, attack, decay, slen) ==
    LET v1 == IF i < attack THEN Trunc(v * i, attack) ELSE v
    IN  IF i < slen - decay /\ decay > 0 THEN Trunc(v1 * (slen - i), decay) ELSE v1

\* line 105-108
Envelope(v, i, attack, decay, slen) ==
    LET v1 == IF i < attack THEN Trunc(v * i, attack) ELSE v
    IN  IF i > slen - decay THEN Trunc(v1 * (slen - i), decay) ELSE v1

Samples(sps, length) == PyFloorDiv(sps * length, 1000)

\* line 104: the values of v for i in range(slen)
Unscaled(osc, cps, slen, rnd) ==
    [k \in 1..slen |-> Quantize(osc, Phase(k - 1, cps), rnd[k])]

\* line 109-112: v appended twice, the pairs stored as int16
Stereo(v) == <<ToInt16(v), ToInt16(v)>>

\* line 93-112: the array b
Synthesize(raw, attack, decay, slen) ==
    [k \in 1..slen |-> Stereo(Envelope(raw[k], k - 1, attack, decay, slen))]

\* a panning argument: a string, a number num / den, or anything else
Str(s) == [type |-> "str", s |-> s, num |-> 0, den |-> 1]
PanInt(n) == [type |-> "int", s |-> "", num |-> n, den |-> 1]
PanFloat(n, d) == [type |-> "float", s |-> "", num |-> n, den |-> d]
NoPan == [type |-> "NoneType", s |-> "", num |-> 0, den |-> 1]

NoOp == [op |-> "none", outcome |-> "", pan |-> NoPan, repeats |-> 0, volume |-> 0]

NoArgs == [soundfile |-> FALSE, osc |-> "", freq |-> IntHz(0), length |-> 0,
           attack |-> 0, decay |-> 0]

FreeChannel == [snd |-> 0, loops |-> 0]

VolUnit == 100

\* pygame.mixer.Sound(b): a new object with the samples b at full volume
NewSound(b) == [buf |-> b, volume |-> VolUnit]

Raise(a, what) ==
    /\ sound' = 0
    /\ heap' = << >>
    /\ unscaled' = << >>
    /\ args' = a
    /\ lastOp' = [NoOp EXCEPT !.op = "init", !.outcome = what]
    /\ UNCHANGED <<SOUNDSAMPLINGFREQUENCY, channels, requested>>

Sound_init(osc, freq, length, attack, decay) ==
    LET a == [soundfile |-> FALSE, osc |-> osc, freq |-> freq, length |-> length,
              attack |-> attack, decay |-> decay]
        sps == SOUNDSAMPLINGFREQUENCY
        att == PyFloorDiv(attack * sps, 1000)
        dec == PyFloorDiv(decay * sps, 1000)
        slen == Samples(sps, length)
    IN  /\ lastOp.op = "none"
        /\ IF freq.hz = 0
           THEN Raise(a, "ZeroDivisionError")              \* line 99
           ELSE IF Cps(sps, freq).n = 0 /\ slen > 0
           THEN Raise(a, "ZeroDivisionError")              \* line 103
           ELSE \E rnd \in [1..slen -> IF osc = "whitenoise" THEN white_noise ELSE {0}] :
                  LET raw == Unscaled(osc, Cps(sps, freq), slen, rnd)
                  IN  /\ sound' = 1
                      /\ heap' = (1 :> NewSound(Synthesize(raw, att, dec, slen)))
                      /\ unscaled' = raw
                      /\ args' = a
                      /\ lastOp' = [NoOp EXCEPT !.op = "init", !.outcome = "ok"]
                      /\ UNCHANGED <<SOUNDSAMPLINGFREQUENCY, channels, requested>>

\* line 71-77: pygame.mixer.Sound(soundfile) decodes the file into b
Sound_init_file(b) ==
    /\ lastOp.op = "none"
    /\ sound' = 1
    /\ heap' = (1 :> NewSound(b))
    /\ unscaled' = << >>
    /\ args' = [NoArgs EXCEPT !.soundfile = TRUE]
    /\ lastOp' = [NoOp EXCEPT !.op = "init", !.outcome = "ok"]
    /\ UNCHANGED <<SOUNDSAMPLINGFREQUENCY, channels, requested>>

----------------------------------------------------------------------------
(* The pygame collaborator *)

\* the objects something still refers to: self.sound and the channels' sounds
Live(h, snd, ch) ==
    [id \in {i \in DOMAIN h : i = snd \/ \E c \in DOMAIN ch : ch[c].snd = i} |-> h[id]]

Free(ch) == {c \in DOMAIN ch : ch[c].snd = 0}

Lowest(S) == CHOOSE c \in S : \A d \in S : c <= d

\* Sound.play(loops): on the first free channel, on none when all are busy
MixerPlay(ch, snd, loops) ==
    IF Free(ch) = {} THEN ch
    ELSE [ch EXCEPT ![Lowest(Free(ch))] = [snd |-> snd, loops |-> loops]]

\* Sound.stop(): every channel playing this object stops
MixerStop(ch, snd) ==
    [c \in DOMAIN ch |-> IF ch[c].snd = snd THEN FreeChannel ELSE ch[c]]

\* a channel reaches the end of its sound's samples
PlaybackEnds(c) ==
    /\ channels[c].snd # 0
    /\ channels[c].loops >= 0
    /\ channels' = [channels EXCEPT ![c] =
                      IF @.loops = 0 THEN FreeChannel ELSE [@ EXCEPT !.loops = @ - 1]]
    /\ heap' = Live(heap, sound, channels')
    /\ lastOp' = [NoOp EXCEPT !.op = "playback_end"]
    /\ UNCHANGED <<SOUNDSAMPLINGFREQUENCY, sound, args, unscaled, requested>>

----------------------------------------------------------------------------
(* Sound.pan *)

\* pygame.sndarray.array(self.sound): the samples of self.sound
Buffer == heap[sound].buf

\* line 181
PanRejected(panning) ==
    panning.type \notin {"int", "float"} /\ panning.s \notin {"left", "right"}

\* 'left' and 'right' taken for each other
PanFrameSwapped(frame, panning) ==
    LET l == frame[1]
        r == frame[2]
    IN  IF panning.s = "left" THEN <<0, r>>
        ELSE IF panning.s = "right" THEN <<l, 0>>
        ELSE IF panning.num < 0
             THEN <<l, ToInt16(Trunc(r * panning.den, Abs(panning.num)))>>
        ELSE IF panning.num > 0
             THEN <<ToInt16(Trunc(l * panning.den, Abs(panning.num))), r>>
        ELSE <<l, r>>

\* line 192-205: one frame of buf
PanFrame(frame, panning) ==
    LET l == frame[1]
        r == frame[2]
    IN  IF panning.s = "left" THEN <<l, 0>>
        ELSE IF panning.s = "right" THEN <<0, r>>
        ELSE IF panning.num < 0
             THEN <<l, ToInt16(Trunc(r * panning.den, Abs(panning.num)))>>
        ELSE IF panning.num > 0
             THEN <<ToInt16(Trunc(l * panning.den, Abs(panning.num))), r>>
        ELSE <<l, r>>

\* line 188-205
PanBuffer(buf, panning) == [i \in 1..Len(buf) |-> PanFrame(buf[i], panning)]

pan(panning) ==
    /\ sound # 0
    /\ IF PanRejected(panning)
       THEN /\ lastOp' = [NoOp EXCEPT !.op = "pan", !.pan = panning,
                                      !.outcome = "error printed"]
            /\ UNCHANGED <<sound, heap>>
       ELSE IF panning.type \in {"int", "float"} /\ panning.num = 0
       THEN /\ lastOp' = [NoOp EXCEPT !.op = "pan", !.pan = panning,
                                      !.outcome = "returned"]
            /\ UNCHANGED <<sound, heap>>
       ELSE /\ sound <= MaxPans
            /\ sound' = sound + 1
            /\ heap' = Live(heap @@ (sound + 1 :> NewSound(PanBuffer(heap[sound].buf, panning))),
                            sound + 1, channels)
            /\ lastOp' = [NoOp EXCEPT !.op = "pan", !.pan = panning,
                                      !.outcome = "panned"]
    /\ UNCHANGED <<SOUNDSAMPLINGFREQUENCY, channels, args, unscaled, requested>>

----------------------------------------------------------------------------
(* Sound.play, Sound.stop, Sound.set_volume *)

play(repeats) ==
    /\ sound # 0
    /\ channels' = MixerPlay(channels, sound, repeats)
    /\ lastOp' = [NoOp EXCEPT !.op = "play", !.repeats = repeats,
                              !.outcome = IF Free(channels) = {} THEN "no channel"
                                          ELSE "started"]
    /\ UNCHANGED <<SOUNDSAMPLINGFREQUENCY, sound, heap, args, unscaled, requested>>

stop ==
    /\ sound # 0
    /\ channels' = MixerStop(channels, sound)
    /\ lastOp' = [NoOp EXCEPT !.op = "stop", !.outcome = "returned"]
    /\ UNCHANGED <<SOUNDSAMPLINGFREQUENCY, sound, heap, args, unscaled, requested>>

\* the upper limit forgotten
VolumeAcceptedNoUpper(volume) == volume >= 0

\* line 253
VolumeAccepted(volume) == volume <= VolUnit /\ volume >= 0

set_volume(volume) ==
    /\ sound # 0
    /\ IF VolumeAccepted(volume)
       THEN /\ heap' = [heap EXCEPT ![sound].volume = volume]
            /\ requested' = volume
            /\ lastOp' = [NoOp EXCEPT !.op = "set_volume", !.volume = volume,
                                      !.outcome = "forwarded"]
       ELSE /\ lastOp' = [NoOp EXCEPT !.op = "set_volume", !.volume = volume,
                                      !.outcome = "error printed"]
            /\ UNCHANGED <<heap, requested>>
    /\ UNCHANGED <<SOUNDSAMPLINGFREQUENCY, sound, channels, args, unscaled>>

----------------------------------------------------------------------------
(* The inputs *)

SampleRates == {1000, 1500}

Frequencies == {IntHz(250), IntHz(500), IntHz(2000), IntHz(0), IntHz(-250),
                FloatHz(250), FloatHz(2000), FloatHz(0), FloatHz(-250)}

PanArgs == {Str("left"), Str("right"), Str("center"), NoPan,
            PanInt(0), PanInt(1), PanInt(2), PanInt(-3),
            PanFloat(1, 2), PanFloat(-1, 2), PanFloat(-1, 1)}

\* the panning arguments of a Sound in use
PlayPanArgs == {Str("left"), Str("center"), PanInt(0), PanFloat(1, 2)}

Repeats == {-1, 0, 1}

Volumes == {-50, 0, 100, 150}

FileFrames == {<<-32768, 32767>>, <<16383, 16383>>, <<-3, 7>>, <<0, 100>>}

FileBuffers == UNION {[1..n -> FileFrames] : n \in 1..MaxFileFrames}

Init ==
    /\ SOUNDSAMPLINGFREQUENCY \in SampleRates
    /\ sound = 0
    /\ heap = << >>
    /\ channels = [c \in 1..NumChannels |-> FreeChannel]
    /\ args = NoArgs
    /\ unscaled = << >>
    /\ requested = -1
    /\ lastOp = NoOp

\* construction alone, over every kind of argument
NextSynth ==
    \E osc \in Oscillators, freq \in Frequencies, length \in 0..MaxLengthMs,
       attack \in 0..MaxAttackMs, decay \in 0..MaxDecayMs :
        Sound_init(osc, freq, length, attack, decay)

SpecSynth == Init /\ [][NextSynth]_vars

\* a Sound that is constructed and then only panned
NextPan ==
    \/ \E b \in FileBuffers : Sound_init_file(b)
    \/ \E osc \in {"sine", "whitenoise"}, attack \in 0..1 :
         Sound_init(osc, IntHz(250), 2, attack, 0)
    \/ \E panning \in PanArgs : pan(panning)

SpecPan == Init /\ [][NextPan]_vars

\* a Sound in use: constructed, then panned, played, stopped and set in volume
Next ==
    \/ Sound_init_file(<< <<-3, 7>> >>)
    \/ Sound_init("square", IntHz(250), 2, 0, 0)
    \/ \E panning \in PlayPanArgs : pan(panning)
    \/ \E repeats \in Repeats : play(repeats)
    \/ stop
    \/ \E volume \in Volumes : set_volume(volume)
    \/ \E c \in 1..NumChannels : PlaybackEnds(c)

Spec == Init /\ [][Next]_vars

----------------------------------------------------------------------------
(* The claims *)

Synthesized == lastOp.op = "init" /\ ~args.soundfile

Constructed == sound # 0

attackSamples == PyFloorDiv(args.attack * SOUNDSAMPLINGFREQUENCY, 1000)
decaySamples == PyFloorDiv(args.decay * SOUNDSAMPLINGFREQUENCY, 1000)
totalSamples == Trunc(SOUNDSAMPLINGFREQUENCY * args.length, 1000)

\* C1: for every valid parameter set (frequency > 0; the durations are >= 0 and
\* the sample rate > 0 throughout), constructing a synthesized Sound yields a
\* buffer of exactly sampleRate * durationMs / 1000 frames.
C1_Length ==
    (Synthesized /\ args.freq.hz > 0) =>
        (Constructed /\ Len(Buffer) = totalSamples)

\* C3: constructing a synthesized Sound with a frequency that is zero or
\* negative fails with InvalidFrequency, and no Sound with a buffer exists.
C3_InvalidFrequency ==
    (Synthesized /\ args.freq.hz <= 0) =>
        (lastOp.outcome = "InvalidFrequency" /\ ~Constructed)

\* C8 as claimed: with attackSamples > 0, the value at index 0 is 0 and the
\* value at index attackSamples - 1 (outside the decay region) is within 1 of
\* the unscaled value there.
C8_WithinOneStep ==
    (Synthesized /\ Constructed /\ attackSamples > 0) =>
        /\ (totalSamples > 0 /\ 0 <= totalSamples - decaySamples) => Buffer[1][1] = 0
        /\ (attackSamples <= totalSamples /\ attackSamples - 1 <= totalSamples - decaySamples) =>
              Abs(Buffer[attackSamples][1] - unscaled[attackSamples]) <= 1

\* C8 as amended: with attackSamples > 0, the value at index 0 is 0 and the
\* value at index attackSamples - 1 (outside the decay region) has the sign of
\* the unscaled value u there, no greater a magnitude, and differs from it by
\* at most |u| / attackSamples rounded up.
C8_Attack ==
    (Synthesized /\ Constructed /\ attackSamples > 0) =>
        /\ (totalSamples > 0 /\ 0 <= totalSamples - decaySamples) => Buffer[1][1] = 0
        /\ (attackSamples <= totalSamples /\ attackSamples - 1 <= totalSamples - decaySamples) =>
              LET u == unscaled[attackSamples]
                  e == Buffer[attackSamples][1]
              IN  /\ e * u >= 0
                  /\ Abs(e) <= Abs(u)
                  /\ Abs(u - e) <= (Abs(u) + attackSamples - 1) \div attackSamples

C8_Witness ==
    /\ Synthesized /\ Constructed
    /\ attackSamples >= 2
    /\ attackSamples <= totalSamples
    /\ attackSamples - 1 <= totalSamples - decaySamples
    /\ unscaled[1] # 0
    /\ Buffer[attackSamples][1] # 0
    /\ Abs(unscaled[attackSamples] - Buffer[attackSamples][1]) > 1

\* C10: right after the construction of a synthesized Sound with frequency > 0,
\* every frame has left = right, every sample is in -16383..16383, and no
\* sample is greater in magnitude than its unscaled value.
C10_Centered ==
    (Synthesized /\ Constructed /\ args.freq.hz > 0) =>
        \A k \in 1..Len(Buffer) :
            /\ Buffer[k][1] = Buffer[k][2]
            /\ -16383 <= Buffer[k][1] /\ Buffer[k][1] <= 16383
            /\ Abs(Buffer[k][1]) <= Abs(unscaled[k])

C10_Witness ==
    /\ Synthesized /\ Constructed /\ args.freq.hz > 0
    /\ args.osc = "triangle"
    /\ attackSamples + decaySamples > totalSamples
    /\ \E k \in 1..Len(Buffer) : Buffer[k][1] # 0 /\ Buffer[k][1] # unscaled[k]
    /\ \E k \in 1..Len(Buffer) : Abs(unscaled[k]) = 16383

Panned(p) == lastOp.op = "pan" /\ lastOp.pan = p

\* C2: pan('left') sets the right channel of every frame to 0 and leaves the
\* left channel and the length as they were; pan('right') does the same with
\* the channels exchanged.
C2_PanLeftRight ==
    [][(lastOp'.op = "pan" /\ lastOp'.pan.s \in {"left", "right"}) =>
          /\ Len(Buffer') = Len(Buffer)
          /\ \A k \in 1..Len(Buffer) :
                Buffer'[k] = IF lastOp'.pan.s = "left" THEN <<Buffer[k][1], 0>>
                                                        ELSE <<0, Buffer[k][2]>>]_vars

C2_Witness ==
    /\ Panned(Str("left"))
    /\ lastOp.outcome = "panned"
    /\ args.soundfile
    /\ Len(Buffer) = MaxFileFrames
    /\ Buffer[1] = <<-32768, 0>>

\* a panning argument that is 'left', 'right' or a number in [-1, 1]
ValidPanning(p) ==
    \/ p.s \in {"left", "right"}
    \/ p.type \in {"int", "float"} /\ Abs(p.num) <= p.den

\* C4: pan with an argument that is neither 'left'/'right' nor a number in
\* [-1, 1] is rejected and changes no sample of the buffer.
C4_InvalidPanning ==
    [][(lastOp'.op = "pan" /\ ~ValidPanning(lastOp'.pan)) =>
          /\ lastOp'.outcome = "error printed"
          /\ Buffer' = Buffer]_vars

\* C7: pan(v) with 0 < |v| <= 1 leaves the panned channel as it was and makes
\* no sample of the other channel greater in magnitude.
C7_Attenuates ==
    [][(/\ lastOp'.op = "pan"
        /\ lastOp'.pan.type \in {"int", "float"}
        /\ lastOp'.pan.num # 0
        /\ Abs(lastOp'.pan.num) <= lastOp'.pan.den) =>
          /\ Len(Buffer') = Len(Buffer)
          /\ \A k \in 1..Len(Buffer) :
                IF lastOp'.pan.num < 0
                THEN Buffer'[k][1] = Buffer[k][1] /\ Abs(Buffer'[k][2]) <= Abs(Buffer[k][2])
                ELSE Buffer'[k][2] = Buffer[k][2] /\ Abs(Buffer'[k][1]) <= Abs(Buffer[k][1])]_vars

\* C5: set_volume(v) passes v on to the pygame Sound if and only if
\* 0 <= v <= 1; otherwise the call is rejected and the Sound's volume, buffer
\* and playback are as they were.
C5_SetVolume ==
    [][lastOp'.op = "set_volume" =>
          IF 0 <= lastOp'.volume /\ lastOp'.volume <= VolUnit
          THEN /\ lastOp'.outcome = "forwarded"
               /\ heap'[sound'].volume = lastOp'.volume
               /\ Buffer' = Buffer
          ELSE /\ lastOp'.outcome = "error printed"
               /\ heap' = heap /\ sound' = sound /\ channels' = channels]_vars

C5_Witness ==
    /\ lastOp.op = "set_volume"
    /\ lastOp.volume > VolUnit
    /\ lastOp.outcome = "error printed"
    /\ heap[sound].volume = 0
    /\ \E c \in DOMAIN channels : channels[c].snd = sound

\* C6: after stop() no playback an earlier play() started is in progress; a
\* stop() while nothing plays changes nothing.
C6_StopSilences ==
    [][lastOp'.op = "stop" =>
          /\ \A c \in DOMAIN channels : channels'[c].snd = 0
          /\ (\A c \in DOMAIN channels : channels[c].snd = 0) =>
                (channels' = channels /\ heap' = heap /\ sound' = sound)]_vars

\* C9: after a set_volume(v) that was passed on, a playback a later play()
\* starts has volume v, whatever pan, stop and rejected set_volume calls came
\* in between.
C9_VolumeKept ==
    (lastOp.op = "play" /\ lastOp.outcome = "started" /\ requested # -1) =>
        \A c \in DOMAIN channels :
            channels[c].snd = sound => heap[channels[c].snd].volume = requested

====
